---- MODULE Spec2Model ----
(***************************************************************************)
(* A model of hrmgmt/personaldetail: the stored tables of models.py, the   *)
(* save() overrides that maintain slugs, primary flags and the Nepali      *)
(* audit strings, and the admin soft-delete actions of admin.py.           *)
(*                                                                         *)
(* A table is a function from the primary keys of its stored rows to       *)
(* records.  Text is modelled as a sequence of naturals: a name is a       *)
(* sequence of words, a slug a sequence of hyphen-separated segments, the  *)
(* empty sequence the empty string.  A word w >= Upper is the word         *)
(* w - Upper written with capital letters; the words 0..9 are numerals.    *)
(* Free-text and file fields no operation reads (photo, logo, code,        *)
(* address_line, specific_works, created_by) are left out of the rows.     *)
(***************************************************************************)
EXTENDS Integers, Sequences, FiniteSets, TLC

VARIABLES
    provinces,        \* Province rows:      pk -> [name, slug, audit]
    districts,        \* District rows:      pk -> [province, name, slug, audit]
    municipalities,   \* Municipality rows:  pk -> [district, name, slug, audit]
    wards,            \* Ward rows:          pk -> [municipality, ward_no, slug, audit]
    banks,            \* Bank rows:          pk -> [name, slug, audit]
    branches,         \* BankBranch rows:    pk -> [bank, name, ward, slug, audit]
    persons,          \* Person rows
    phones,           \* PhoneNumber rows:   pk -> [person, number, is_primary, audit]
    emails,           \* EmailAddress rows:  pk -> [person, email, is_primary, audit]
    accounts,         \* BankAccount rows:   pk -> [person, bank, branch, account_number, is_primary, audit]
    now,              \* timezone.now(), in ticks
    nepaliAvailable,  \* _NEPALI_AVAILABLE, fixed when the module is imported
    last,             \* the call made by the latest step, and how it ended
    inflight          \* the save() calls of concurrent requests: request -> its
                      \* instance and the statement it is to run next

vars == <<provinces, districts, municipalities, wards, banks, branches,
          persons, phones, emails, accounts, now, nepaliAvailable, last,
          inflight>>

addressVars == <<provinces, districts, municipalities, wards>>
bankVars == <<banks, branches>>
contactVars == <<phones, emails, accounts>>

(***************************************************************************)
(* Bounds of the model.                                                    *)
(***************************************************************************)
\* rows of the three contact tables together (PrimarySpec)
MaxContactRows == 2
\* rows of the four address tables together (AddressSpec)
MaxAddressRows == 4
\* rows SlugSpec adds to the stored ones, over its four tables together
MaxSlugRows == 2
\* rows of the District table UniqueSlugSpec draws
MaxDrawn == 3
\* rows AuditSpec stores, over its two tables together
MaxAuditRows == 2
\* Ward rows of WardSpec
MaxWards == 2
\* ticks per second: the display string drops the fraction of a second
TicksPerSecond == 2
\* the clock stops at MaxTime
MaxTime == 4

(***************************************************************************)
(* Values.                                                                 *)
(***************************************************************************)
\* Python's None: no datetime, no foreign key
None == 0
\* the empty string
Blank == <<>>
\* first capital word: word w and word w + Upper differ in letter case only
Upper == 100
\* the word "ward" of Ward.save's f"ward-{self.ward_no}"
WardWord == 20

\* the Post rows; no operation of the model creates or deletes a Post
PostIds == {1}

\* the table t with row pk written
Put(t, pk, rec) == [i \in DOMAIN t \cup {pk} |-> IF i = pk THEN rec ELSE t[i]]

\* the table t without the rows gone
Drop(t, gone) == [i \in DOMAIN t \ gone |-> t[i]]

\* id = UUIDField(primary_key=True, default=uuid.uuid4): a constructed
\* instance has a primary key no stored row has, and never None
DefaultPk(t) == CHOOSE i \in 1..(Cardinality(DOMAIN t) + 1) :
                    /\ i \notin DOMAIN t
                    /\ \A j \in 1..(i - 1) : j \in DOMAIN t

\* the primary keys a save() may be called with: a stored row's (an instance
\* read earlier, with any field values, fresh or stale) or a new instance's
Pks(t) == DOMAIN t \cup {DefaultPk(t)}

(***************************************************************************)
(* gregorian_to_nepali_string and AuditableModel.                          *)
(***************************************************************************)
\* "YYYY-MM-DD HH:MM:SS" of dt, in the Bikram Sambat calendar when the
\* conversion is available; "" for no datetime
gregorian_to_nepali_string(dt) ==
    IF dt = None THEN Blank
    ELSE IF nepaliAvailable THEN <<"BS", dt \div TicksPerSecond>>
    ELSE <<"AD", dt \div TicksPerSecond>>

\* the audit fields of an instance that was never saved
NewAudit ==
    [created_at |-> None, updated_at |-> None,
     created_at_nepali |-> Blank, updated_at_nepali |-> Blank]

\* AuditableModel.save() without update_fields, on an instance with primary
\* key pk and audit fields a; adding: no row pk is stored.  The audit fields
\* stored when it returns.
AuditableModel_save(pk, adding, a) ==
    LET is_new == (pk = None)
        \* super().save(): auto_now_add on insert, auto_now always
        first == [a EXCEPT !.created_at = IF adding THEN now ELSE a.created_at,
                           !.updated_at = now]
    IN  IF is_new
        THEN [first EXCEPT
                !.created_at_nepali = gregorian_to_nepali_string(first.created_at),
                !.updated_at_nepali = gregorian_to_nepali_string(first.updated_at)]
        ELSE [first EXCEPT
                !.updated_at_nepali = gregorian_to_nepali_string(first.updated_at)]

\* AuditableModel.save(update_fields=...) of a stored row whose update_fields
\* name no audit field: updated_at is not written, updated_at_nepali is
\* recomputed from the instance's updated_at
AuditableModel_save_fields(a) ==
    [a EXCEPT !.updated_at_nepali = gregorian_to_nepali_string(a.updated_at)]

\* the audit fields of the instance save() is called on
AuditOf(t, pk) == IF pk \in DOMAIN t THEN t[pk].audit ELSE NewAudit

(***************************************************************************)
(* slugify and unique_slugify.                                             *)
(***************************************************************************)
\* django.utils.text.slugify: lower case, words joined by hyphens
slugify(value) ==
    [i \in DOMAIN value |-> IF value[i] >= Upper THEN value[i] - Upper ELSE value[i]]

RECURSIVE slug_loop(_, _, _)
\* the while loop of unique_slugify: the first original_slug-next_ not used
slug_loop(original_slug, used, next_) ==
    IF Append(original_slug, next_) \in used
    THEN slug_loop(original_slug, used, next_ + 1)
    ELSE Append(original_slug, next_)

\* unique_slugify without queryset.exclude(pk=instance.pk)
unique_slugify_counting_self(pk, value, qs) ==
    LET slug == slugify(value)
        used == {qs[i].slug : i \in DOMAIN qs}
    IN  IF slug \in used THEN slug_loop(slug, used, 1) ELSE slug

\* unique_slugify(instance, value, queryset=qs): the slug set on the instance.
\* qs is the table of the rows of the queryset; instance.pk is never None, so
\* the row pk is always excluded.
unique_slugify(pk, value, qs) ==
    LET slug == slugify(value)
        used == {qs[i].slug : i \in DOMAIN qs \ {pk}}
    IN  IF slug \in used THEN slug_loop(slug, used, 1) ELSE slug

(***************************************************************************)
(* The latest call.                                                        *)
(***************************************************************************)
\* op: the method; pk: the row it was called on; err: the constraints and
\* foreign keys the database rejected it for, ok: none; person, primary: the
\* person and the is_primary a contact row was saved with; gen: save() found
\* the slug empty and generated one; pks: the rows a soft-delete or restore
\* was given, pre: the Person table before it
Call(op, pk, err, person, primary, gen, pks, pre) ==
    [op |-> op, pk |-> pk, ok |-> (err = {}), err |-> err, person |-> person,
     primary |-> primary, gen |-> gen, pks |-> pks, pre |-> pre]

\* the empty table
NoRows == [i \in {} |-> 0]

NoCall == Call("none", None, {}, None, FALSE, FALSE, {}, NoRows)

ContactCall(op, pk, err, person, primary) ==
    Call(op, pk, err, person, primary, FALSE, {}, NoRows)

SlugCall(op, pk, err, gen) == Call(op, pk, err, None, FALSE, gen, {}, NoRows)

\* a delete: rejected (ProtectedError) or not
DeleteCall(op, pk, protected) ==
    Call(op, pk, IF protected THEN {"PROTECT"} ELSE {}, None, FALSE, FALSE, {}, NoRows)

\* the constraint name, when the row breaks it
Violated(name, holds) == IF holds THEN {} ELSE {name}

(***************************************************************************)
(* Province, District, Municipality, Ward, BankBranch.                     *)
(***************************************************************************)
\* <Model>.objects.filter(<field>=v), as a table
Scope(t, field, v) == [i \in {j \in DOMAIN t : t[j][field] = v} |-> t[i]]

\* no row of t other than pk has the values of rec in all of fields: a
\* unique_together or UniqueConstraint over fields admits rec
UniqueOK(t, pk, rec, fields) ==
    \A i \in DOMAIN t \ {pk} : \E f \in fields : t[i][f] # rec[f]

\* Province.save(): name unique, slug unique
Province_save(pk, name, slug) ==
    LET adding == pk \notin DOMAIN provinces
        gen == (slug = Blank)
        newslug == IF gen THEN unique_slugify(pk, name, provinces) ELSE slug
        rec == [name |-> name, slug |-> newslug,
                audit |-> AuditableModel_save(pk, adding, AuditOf(provinces, pk))]
        err == Violated("name", UniqueOK(provinces, pk, rec, {"name"}))
               \cup Violated("slug", UniqueOK(provinces, pk, rec, {"slug"}))
        ok == (err = {})
    IN  /\ provinces' = IF ok THEN Put(provinces, pk, rec) ELSE provinces
        /\ last' = SlugCall("Province.save", pk, err, gen)
        /\ UNCHANGED <<districts, municipalities, wards, bankVars, persons,
                       contactVars, now, nepaliAvailable, inflight>>

\* the constraints of District.Meta, without unique_district_slug_per_province
DistrictMeta_unconstrained(pk, rec) ==
    Violated("province", rec.province \in DOMAIN provinces)
    \cup Violated("unique_together", UniqueOK(districts, pk, rec, {"province", "name"}))

\* District.Meta and the province foreign key: the database admits rec as row pk
DistrictMeta(pk, rec) ==
    Violated("province", rec.province \in DOMAIN provinces)
    \cup Violated("unique_together", UniqueOK(districts, pk, rec, {"province", "name"}))
    \cup Violated("unique_district_slug_per_province",
                  UniqueOK(districts, pk, rec, {"province", "slug"}))

\* District.save() calling unique_slugify without queryset=
District_save_unscoped(pk, province, name, slug) ==
    LET adding == pk \notin DOMAIN districts
        gen == (slug = Blank)
        newslug == IF gen THEN unique_slugify(pk, name, districts) ELSE slug
        rec == [province |-> province, name |-> name, slug |-> newslug,
                audit |-> AuditableModel_save(pk, adding, AuditOf(districts, pk))]
        err == DistrictMeta(pk, rec)
        ok == (err = {})
    IN  /\ districts' = IF ok THEN Put(districts, pk, rec) ELSE districts
        /\ last' = SlugCall("District.save", pk, err, gen)
        /\ UNCHANGED <<provinces, municipalities, wards, bankVars, persons,
                       contactVars, now, nepaliAvailable, inflight>>

\* District.save(): the slug is generated within the province when empty
District_save(pk, province, name, slug) ==
    LET adding == pk \notin DOMAIN districts
        gen == (slug = Blank)
        newslug == IF gen
                   THEN unique_slugify(pk, name, Scope(districts, "province", province))
                   ELSE slug
        rec == [province |-> province, name |-> name, slug |-> newslug,
                audit |-> AuditableModel_save(pk, adding, AuditOf(districts, pk))]
        err == DistrictMeta(pk, rec)
        ok == (err = {})
    IN  /\ districts' = IF ok THEN Put(districts, pk, rec) ELSE districts
        /\ last' = SlugCall("District.save", pk, err, gen)
        /\ UNCHANGED <<provinces, municipalities, wards, bankVars, persons,
                       contactVars, now, nepaliAvailable, inflight>>

\* Municipality.Meta and the district foreign key
MunicipalityMeta(pk, rec) ==
    Violated("district", rec.district \in DOMAIN districts)
    \cup Violated("unique_together", UniqueOK(municipalities, pk, rec, {"district", "name"}))
    \cup Violated("unique_municipality_slug_per_district",
                  UniqueOK(municipalities, pk, rec, {"district", "slug"}))

\* Municipality.save()
Municipality_save(pk, district, name, slug) ==
    LET adding == pk \notin DOMAIN municipalities
        gen == (slug = Blank)
        newslug == IF gen
                   THEN unique_slugify(pk, name, Scope(municipalities, "district", district))
                   ELSE slug
        rec == [district |-> district, name |-> name, slug |-> newslug,
                audit |-> AuditableModel_save(pk, adding, AuditOf(municipalities, pk))]
        err == MunicipalityMeta(pk, rec)
        ok == (err = {})
    IN  /\ municipalities' = IF ok THEN Put(municipalities, pk, rec) ELSE municipalities
        /\ last' = SlugCall("Municipality.save", pk, err, gen)
        /\ UNCHANGED <<provinces, districts, wards, bankVars, persons,
                       contactVars, now, nepaliAvailable, inflight>>

\* Ward.Meta and the municipality foreign key
WardMeta(pk, rec) ==
    Violated("municipality", rec.municipality \in DOMAIN municipalities)
    \cup Violated("unique_together", UniqueOK(wards, pk, rec, {"municipality", "ward_no"}))
    \cup Violated("unique_ward_slug_per_municipality",
                  UniqueOK(wards, pk, rec, {"municipality", "slug"}))

\* f"ward-{self.ward_no}"
WardSlugValue(ward_no) == <<WardWord, ward_no>>

\* Ward.save()
Ward_save(pk, municipality, ward_no, slug) ==
    LET adding == pk \notin DOMAIN wards
        gen == (slug = Blank)
        newslug == IF gen
                   THEN unique_slugify(pk, WardSlugValue(ward_no),
                                       Scope(wards, "municipality", municipality))
                   ELSE slug
        rec == [municipality |-> municipality, ward_no |-> ward_no, slug |-> newslug,
                audit |-> AuditableModel_save(pk, adding, AuditOf(wards, pk))]
        err == WardMeta(pk, rec)
        ok == (err = {})
    IN  /\ wards' = IF ok THEN Put(wards, pk, rec) ELSE wards
        /\ last' = SlugCall("Ward.save", pk, err, gen)
        /\ UNCHANGED <<provinces, districts, municipalities, bankVars, persons,
                       contactVars, now, nepaliAvailable, inflight>>

\* BankBranch.Meta and the bank and ward foreign keys
BankBranchMeta(pk, rec) ==
    Violated("bank", rec.bank \in DOMAIN banks)
    \cup Violated("ward", rec.ward \in DOMAIN wards)
    \cup Violated("unique_together", UniqueOK(branches, pk, rec, {"bank", "name", "ward"}))
    \cup Violated("unique_branch_slug_per_bank",
                  UniqueOK(branches, pk, rec, {"bank", "slug"}))

\* f"{self.bank.name} {self.name}"
BankBranchSlugValue(bank, name) == banks[bank].name \o name

\* BankBranch.save(); reading self.bank.name raises when the bank is not stored
BankBranch_save(pk, bank, name, ward, slug) ==
    LET adding == pk \notin DOMAIN branches
        gen == (slug = Blank)
        newslug == IF gen /\ bank \in DOMAIN banks
                   THEN unique_slugify(pk, BankBranchSlugValue(bank, name),
                                       Scope(branches, "bank", bank))
                   ELSE slug
        rec == [bank |-> bank, name |-> name, ward |-> ward, slug |-> newslug,
                audit |-> AuditableModel_save(pk, adding, AuditOf(branches, pk))]
        err == BankBranchMeta(pk, rec)
        ok == (err = {})
    IN  /\ branches' = IF ok THEN Put(branches, pk, rec) ELSE branches
        /\ last' = SlugCall("BankBranch.save", pk, err, gen)
        /\ UNCHANGED <<addressVars, banks, persons, contactVars, now, nepaliAvailable, inflight>>

\* the rows of t whose foreign key field is pk
Referring(t, field, pk) == {i \in DOMAIN t : t[i][field] = pk}

\* Province.delete(): districts PROTECT their province
Province_delete(pk) ==
    LET ok == Referring(districts, "province", pk) = {}
    IN  /\ pk \in DOMAIN provinces
        /\ provinces' = IF ok THEN Drop(provinces, {pk}) ELSE provinces
        /\ last' = DeleteCall("Province.delete", pk, ~ok)
        /\ UNCHANGED <<districts, municipalities, wards, bankVars, persons,
                       contactVars, now, nepaliAvailable, inflight>>

\* District.delete() without the PROTECT of Municipality.district
District_delete_unprotected(pk) ==
    /\ pk \in DOMAIN districts
    /\ districts' = Drop(districts, {pk})
    /\ last' = DeleteCall("District.delete", pk, FALSE)
    /\ UNCHANGED <<provinces, municipalities, wards, bankVars, persons,
                   contactVars, now, nepaliAvailable, inflight>>

\* District.delete(): municipalities PROTECT their district
District_delete(pk) ==
    LET ok == Referring(municipalities, "district", pk) = {}
    IN  /\ pk \in DOMAIN districts
        /\ districts' = IF ok THEN Drop(districts, {pk}) ELSE districts
        /\ last' = DeleteCall("District.delete", pk, ~ok)
        /\ UNCHANGED <<provinces, municipalities, wards, bankVars, persons,
                       contactVars, now, nepaliAvailable, inflight>>

\* Municipality.delete(): wards PROTECT their municipality
Municipality_delete(pk) ==
    LET ok == Referring(wards, "municipality", pk) = {}
    IN  /\ pk \in DOMAIN municipalities
        /\ municipalities' = IF ok THEN Drop(municipalities, {pk}) ELSE municipalities
        /\ last' = DeleteCall("Municipality.delete", pk, ~ok)
        /\ UNCHANGED <<provinces, districts, wards, bankVars, persons,
                       contactVars, now, nepaliAvailable, inflight>>

\* Ward.delete(): bank branches PROTECT their ward; Person.branch_address is
\* SET_NULL
Ward_delete(pk) ==
    LET ok == Referring(branches, "ward", pk) = {}
    IN  /\ pk \in DOMAIN wards
        /\ wards' = IF ok THEN Drop(wards, {pk}) ELSE wards
        /\ persons' = IF ok
                      THEN [p \in DOMAIN persons |->
                              IF persons[p].branch_address = pk
                              THEN [persons[p] EXCEPT !.branch_address = None]
                              ELSE persons[p]]
                      ELSE persons
        /\ last' = DeleteCall("Ward.delete", pk, ~ok)
        /\ UNCHANGED <<provinces, districts, municipalities, bankVars,
                       contactVars, now, nepaliAvailable, inflight>>

(***************************************************************************)
(* PhoneNumber, EmailAddress, BankAccount.                                 *)
(***************************************************************************)
\* <Model>.objects.filter(person=person, is_primary=True).update(is_primary=False)
ClearPrimaryNone(t, person) == t

ClearPrimaryEveryone(t, person) ==
    [i \in DOMAIN t |-> [t[i] EXCEPT !.is_primary = FALSE]]

ClearPrimary(t, person) ==
    [i \in DOMAIN t |->
        IF t[i].person = person /\ t[i].is_primary
        THEN [t[i] EXCEPT !.is_primary = FALSE]
        ELSE t[i]]

\* PhoneNumber.save() of an instance with primary key pk and the given
\* fields.  The sibling update is committed on its own; the row write is
\* rejected when the person is not stored or (person, number) is taken.
PhoneNumber_save(pk, person, number, is_primary) ==
    LET adding == pk \notin DOMAIN phones
        cleared == IF is_primary THEN ClearPrimary(phones, person) ELSE phones
        rec == [person |-> person, number |-> number, is_primary |-> is_primary,
                audit |-> AuditableModel_save(pk, adding, AuditOf(phones, pk))]
        err == Violated("person", person \in DOMAIN persons)
               \cup Violated("unique_together", UniqueOK(cleared, pk, rec, {"person", "number"}))
        ok == (err = {})
    IN  /\ phones' = IF ok THEN Put(cleared, pk, rec) ELSE cleared
        /\ last' = ContactCall("PhoneNumber.save", pk, err, person, is_primary)
        /\ UNCHANGED <<addressVars, bankVars, persons, emails, accounts, now, nepaliAvailable, inflight>>

\* EmailAddress.save()
EmailAddress_save(pk, person, email, is_primary) ==
    LET adding == pk \notin DOMAIN emails
        cleared == IF is_primary THEN ClearPrimary(emails, person) ELSE emails
        rec == [person |-> person, email |-> email, is_primary |-> is_primary,
                audit |-> AuditableModel_save(pk, adding, AuditOf(emails, pk))]
        err == Violated("person", person \in DOMAIN persons)
               \cup Violated("unique_together", UniqueOK(cleared, pk, rec, {"person", "email"}))
        ok == (err = {})
    IN  /\ emails' = IF ok THEN Put(cleared, pk, rec) ELSE cleared
        /\ last' = ContactCall("EmailAddress.save", pk, err, person, is_primary)
        /\ UNCHANGED <<addressVars, bankVars, persons, phones, accounts, now, nepaliAvailable, inflight>>

\* BankAccount.save() without the sibling update
BankAccount_save_unguarded(pk, person, bank, branch, account_number, is_primary) ==
    LET adding == pk \notin DOMAIN accounts
        rec == [person |-> person, bank |-> bank, branch |-> branch,
                account_number |-> account_number, is_primary |-> is_primary,
                audit |-> AuditableModel_save(pk, adding, AuditOf(accounts, pk))]
        err == Violated("person", person \in DOMAIN persons)
               \cup Violated("bank", bank \in DOMAIN banks)
               \cup Violated("branch", branch = None \/ branch \in DOMAIN branches)
               \cup Violated("unique_together",
                             UniqueOK(accounts, pk, rec, {"bank", "account_number"}))
        ok == (err = {})
    IN  /\ accounts' = IF ok THEN Put(accounts, pk, rec) ELSE accounts
        /\ last' = ContactCall("BankAccount.save", pk, err, person, is_primary)
        /\ UNCHANGED <<addressVars, bankVars, persons, phones, emails, now, nepaliAvailable, inflight>>

\* BankAccount.save(); branch is None or a BankBranch
BankAccount_save(pk, person, bank, branch, account_number, is_primary) ==
    LET adding == pk \notin DOMAIN accounts
        cleared == IF is_primary THEN ClearPrimary(accounts, person) ELSE accounts
        rec == [person |-> person, bank |-> bank, branch |-> branch,
                account_number |-> account_number, is_primary |-> is_primary,
                audit |-> AuditableModel_save(pk, adding, AuditOf(accounts, pk))]
        err == Violated("person", person \in DOMAIN persons)
               \cup Violated("bank", bank \in DOMAIN banks)
               \cup Violated("branch", branch = None \/ branch \in DOMAIN branches)
               \cup Violated("unique_together",
                             UniqueOK(cleared, pk, rec, {"bank", "account_number"}))
        ok == (err = {})
    IN  /\ accounts' = IF ok THEN Put(cleared, pk, rec) ELSE cleared
        /\ last' = ContactCall("BankAccount.save", pk, err, person, is_primary)
        /\ UNCHANGED <<addressVars, bankVars, persons, phones, emails, now, nepaliAvailable, inflight>>

(***************************************************************************)
(* Bank and Person.                                                        *)
(***************************************************************************)
\* Bank.save(): name and slug are unique
Bank_save(pk, name, slug) ==
    LET adding == pk \notin DOMAIN banks
        gen == (slug = Blank)
        newslug == IF gen THEN unique_slugify(pk, name, banks) ELSE slug
        rec == [name |-> name, slug |-> newslug,
                audit |-> AuditableModel_save(pk, adding, AuditOf(banks, pk))]
        err == Violated("name", UniqueOK(banks, pk, rec, {"name"}))
               \cup Violated("slug", UniqueOK(banks, pk, rec, {"slug"}))
        ok == (err = {})
    IN  /\ banks' = IF ok THEN Put(banks, pk, rec) ELSE banks
        /\ last' = SlugCall("Bank.save", pk, err, gen)
        /\ UNCHANGED <<addressVars, branches, persons, contactVars, now, nepaliAvailable, inflight>>

\* the value Person.save() makes the slug from
PersonSlugValue(name, computer_code) ==
    IF computer_code # Blank THEN name \o computer_code ELSE name

\* Person.save(): identity_no, slug and computer_code are unique; post is a
\* Post, branch_address None or a Ward
Person_save(pk, post, name, computer_code, identity_no, slug, branch_address, is_active, deleted_at) ==
    LET adding == pk \notin DOMAIN persons
        gen == (slug = Blank)
        value == PersonSlugValue(name, computer_code)
        newslug == IF gen THEN unique_slugify(pk, value, persons) ELSE slug
        rec == [post |-> post, name |-> name, computer_code |-> computer_code,
                identity_no |-> identity_no, slug |-> newslug,
                branch_address |-> branch_address,
                is_active |-> is_active, deleted_at |-> deleted_at,
                audit |-> AuditableModel_save(pk, adding, AuditOf(persons, pk))]
        err == Violated("post", post \in PostIds)
               \cup Violated("branch_address",
                             branch_address = None \/ branch_address \in DOMAIN wards)
               \cup Violated("identity_no", UniqueOK(persons, pk, rec, {"identity_no"}))
               \cup Violated("slug", UniqueOK(persons, pk, rec, {"slug"}))
               \cup Violated("unique_computer_code",
                             UniqueOK(persons, pk, rec, {"computer_code"}))
        ok == (err = {})
    IN  /\ persons' = IF ok THEN Put(persons, pk, rec) ELSE persons
        /\ last' = SlugCall("Person.save", pk, err, gen)
        /\ UNCHANGED <<addressVars, bankVars, contactVars, now, nepaliAvailable, inflight>>

(***************************************************************************)
(* Soft-delete and restore: the Person methods and the admin actions.      *)
(***************************************************************************)
SoftCall(op, pk, pks) == Call(op, pk, {}, None, FALSE, FALSE, pks, persons)

\* Person.soft_delete() that clears is_active and leaves deleted_at
Person_soft_delete_flag_only(pk) ==
    /\ pk \in DOMAIN persons
    /\ persons' = [persons EXCEPT ![pk] =
                      [persons[pk] EXCEPT
                          !.is_active = FALSE,
                          !.audit = AuditableModel_save_fields(persons[pk].audit)]]
    /\ last' = SoftCall("Person.soft_delete", pk, {pk})
    /\ UNCHANGED <<addressVars, bankVars, contactVars, now, nepaliAvailable, inflight>>

\* Person.soft_delete() on an instance just read: save(update_fields=
\* ['is_active', 'deleted_at']) writes the two fields, then updated_at_nepali
Person_soft_delete(pk) ==
    /\ pk \in DOMAIN persons
    /\ persons' = [persons EXCEPT ![pk] =
                      [persons[pk] EXCEPT
                          !.is_active = FALSE,
                          !.deleted_at = now,
                          !.audit = AuditableModel_save_fields(persons[pk].audit)]]
    /\ last' = SoftCall("Person.soft_delete", pk, {pk})
    /\ UNCHANGED <<addressVars, bankVars, contactVars, now, nepaliAvailable, inflight>>

\* Person.restore() that sets is_active and leaves deleted_at
Person_restore_keeping_deleted_at(pk) ==
    /\ pk \in DOMAIN persons
    /\ persons' = [persons EXCEPT ![pk] =
                      [persons[pk] EXCEPT
                          !.is_active = TRUE,
                          !.audit = AuditableModel_save_fields(persons[pk].audit)]]
    /\ last' = SoftCall("Person.restore", pk, {pk})
    /\ UNCHANGED <<addressVars, bankVars, contactVars, now, nepaliAvailable, inflight>>

\* Person.restore() on an instance just read
Person_restore(pk) ==
    /\ pk \in DOMAIN persons
    /\ persons' = [persons EXCEPT ![pk] =
                      [persons[pk] EXCEPT
                          !.is_active = TRUE,
                          !.deleted_at = None,
                          !.audit = AuditableModel_save_fields(persons[pk].audit)]]
    /\ last' = SoftCall("Person.restore", pk, {pk})
    /\ UNCHANGED <<addressVars, bankVars, contactVars, now, nepaliAvailable, inflight>>

\* SoftDeleteAdminActionMixin.action_soft_delete on the selected persons:
\* queryset.update(is_active=False, deleted_at=now)
action_soft_delete(pks) ==
    /\ pks \subseteq DOMAIN persons
    /\ persons' = [p \in DOMAIN persons |->
                      IF p \in pks
                      THEN [persons[p] EXCEPT !.is_active = FALSE, !.deleted_at = now]
                      ELSE persons[p]]
    /\ last' = SoftCall("action_soft_delete", None, pks)
    /\ UNCHANGED <<addressVars, bankVars, contactVars, now, nepaliAvailable, inflight>>

\* SoftDeleteAdminActionMixin.action_restore:
\* queryset.update(is_active=True, deleted_at=None)
action_restore(pks) ==
    /\ pks \subseteq DOMAIN persons
    /\ persons' = [p \in DOMAIN persons |->
                      IF p \in pks
                      THEN [persons[p] EXCEPT !.is_active = TRUE, !.deleted_at = None]
                      ELSE persons[p]]
    /\ last' = SoftCall("action_restore", None, pks)
    /\ UNCHANGED <<addressVars, bankVars, contactVars, now, nepaliAvailable, inflight>>

\* timezone.now() moves on
Tick ==
    /\ now < MaxTime
    /\ now' = now + 1
    /\ last' = NoCall
    /\ UNCHANGED <<addressVars, bankVars, persons, contactVars, nepaliAvailable, inflight>>

(***************************************************************************)
(* PrimarySpec: save() calls on the contact rows of two stored persons,    *)
(* with accounts at two stored banks.                                      *)
(***************************************************************************)
\* a row as its first save() at the current time stores it
StoredAudit == AuditableModel_save(1, TRUE, NewAudit)

\* two persons, saved with an empty slug
PersonFixture ==
    [p \in {1, 2} |->
        [post |-> 1, name |-> <<30 + p>>, computer_code |-> <<p>>,
         identity_no |-> p, slug |-> <<30 + p, p>>, branch_address |-> None,
         is_active |-> TRUE, deleted_at |-> None, audit |-> StoredAudit]]

\* two banks, saved with an empty slug
BankFixture ==
    [b \in {1, 2} |-> [name |-> <<40 + b>>, slug |-> <<40 + b>>, audit |-> StoredAudit]]

Numbers == {1, 2}
EmailValues == {1, 2}
AccountNumbers == {1}

ContactRows ==
    Cardinality(DOMAIN phones) + Cardinality(DOMAIN emails) + Cardinality(DOMAIN accounts)

\* a new row only while the tables hold fewer than MaxContactRows rows
MayContact(t, pk) == pk \in DOMAIN t \/ ContactRows < MaxContactRows

PrimaryInit ==
    /\ now = 1
    /\ nepaliAvailable = TRUE
    /\ provinces = NoRows /\ districts = NoRows
    /\ municipalities = NoRows /\ wards = NoRows
    /\ banks = BankFixture /\ branches = NoRows
    /\ persons = PersonFixture
    /\ phones = NoRows /\ emails = NoRows /\ accounts = NoRows
    /\ last = NoCall
    /\ inflight = NoRows

SavePhone ==
    \E pk \in Pks(phones), person \in DOMAIN persons, number \in Numbers,
       is_primary \in BOOLEAN :
        MayContact(phones, pk) /\ PhoneNumber_save(pk, person, number, is_primary)

SaveEmail ==
    \E pk \in Pks(emails), person \in DOMAIN persons, email \in EmailValues,
       is_primary \in BOOLEAN :
        MayContact(emails, pk) /\ EmailAddress_save(pk, person, email, is_primary)

SaveAccount ==
    \E pk \in Pks(accounts), person \in DOMAIN persons, bank \in DOMAIN banks,
       account_number \in AccountNumbers, is_primary \in BOOLEAN :
        MayContact(accounts, pk)
        /\ BankAccount_save(pk, person, bank, None, account_number, is_primary)

PrimaryNext == SavePhone \/ SaveEmail \/ SaveAccount

PrimarySpec == PrimaryInit /\ [][PrimaryNext]_vars

(***************************************************************************)
(* AddressSpec: creates, saves and deletes on the address hierarchy,       *)
(* starting from empty tables.                                             *)
(***************************************************************************)
AddressNames == {<<10>>, <<11>>}
WardNumbers == {1, 2}

AddressRows ==
    Cardinality(DOMAIN provinces) + Cardinality(DOMAIN districts)
        + Cardinality(DOMAIN municipalities) + Cardinality(DOMAIN wards)

\* a new row only while the tables hold fewer than MaxAddressRows rows
MayAddress(t, pk) == pk \in DOMAIN t \/ AddressRows < MaxAddressRows

\* the foreign keys a caller may give: a stored row's key, or the key of a
\* row that is not stored (an instance of a row deleted meanwhile)
ParentKeys(t) == DOMAIN t \cup {DefaultPk(t)}

AddressInit ==
    /\ now = 1
    /\ nepaliAvailable = TRUE
    /\ provinces = NoRows /\ districts = NoRows
    /\ municipalities = NoRows /\ wards = NoRows
    /\ banks = NoRows /\ branches = NoRows
    /\ persons = NoRows
    /\ phones = NoRows /\ emails = NoRows /\ accounts = NoRows
    /\ last = NoCall
    /\ inflight = NoRows

SaveProvince ==
    \E pk \in Pks(provinces), name \in AddressNames :
        MayAddress(provinces, pk) /\ Province_save(pk, name, Blank)

SaveDistrict ==
    \E pk \in Pks(districts), province \in ParentKeys(provinces), name \in AddressNames :
        MayAddress(districts, pk) /\ District_save(pk, province, name, Blank)

SaveMunicipality ==
    \E pk \in Pks(municipalities), district \in ParentKeys(districts), name \in AddressNames :
        MayAddress(municipalities, pk) /\ Municipality_save(pk, district, name, Blank)

SaveWard ==
    \E pk \in Pks(wards), municipality \in ParentKeys(municipalities), ward_no \in WardNumbers :
        MayAddress(wards, pk) /\ Ward_save(pk, municipality, ward_no, Blank)

DeleteProvince == \E pk \in DOMAIN provinces : Province_delete(pk)
DeleteDistrict == \E pk \in DOMAIN districts : District_delete(pk)
DeleteMunicipality == \E pk \in DOMAIN municipalities : Municipality_delete(pk)
DeleteWard == \E pk \in DOMAIN wards : Ward_delete(pk)

AddressNext ==
    \/ SaveProvince \/ SaveDistrict \/ SaveMunicipality \/ SaveWard
    \/ DeleteProvince \/ DeleteDistrict \/ DeleteMunicipality \/ DeleteWard

AddressSpec == AddressInit /\ [][AddressNext]_vars

(***************************************************************************)
(* Claims about the primary flag (PrimarySpec).                            *)
(***************************************************************************)
\* the three tables with an is_primary flag, and the save() of each
ContactTables == <<phones, emails, accounts>>
ContactSave == <<"PhoneNumber.save", "EmailAddress.save", "BankAccount.save">>
ContactKinds == {1, 2, 3}

RowsOf(t, p) == {i \in DOMAIN t : t[i].person = p}
Primaries(t, p) == {i \in DOMAIN t : t[i].person = p /\ t[i].is_primary}

\* C1 as stated: every person that has a row of a kind has exactly one row of
\* that kind with is_primary = True.
C1_ExactlyOnePrimary ==
    \A k \in ContactKinds : \A p \in DOMAIN persons :
        RowsOf(ContactTables[k], p) # {}
            => Cardinality(Primaries(ContactTables[k], p)) = 1

\* C1 as amended: every person has at most one row of a kind with
\* is_primary = True (possibly none), and when the latest save() was given
\* is_primary = True and succeeded, the saved row is the one primary row of
\* its kind of the person it was saved for.
C1_AtMostOneAndSavedIsPrimary ==
    \A k \in ContactKinds :
        /\ \A p \in DOMAIN persons : Cardinality(Primaries(ContactTables[k], p)) <= 1
        /\ (last.op = ContactSave[k] /\ last.ok /\ last.primary)
              => Primaries(ContactTables[k], last.person) = {last.pk}

\* a save() with is_primary = True succeeded for a person with another row of
\* the kind
C1_Witness ==
    \E k \in ContactKinds :
        /\ last.op = ContactSave[k] /\ last.ok /\ last.primary
        /\ RowsOf(ContactTables[k], last.person) \ {last.pk} # {}

\* C2: after any sequence of save() calls, no person has two rows of the same
\* kind with is_primary = True.
C2_NoTwoPrimaries ==
    \A k \in ContactKinds : \A i, j \in DOMAIN ContactTables[k] :
        (/\ ContactTables[k][i].person = ContactTables[k][j].person
         /\ ContactTables[k][i].is_primary
         /\ ContactTables[k][j].is_primary) => i = j

\* row 1 was saved again with is_primary = True after row 2 of its kind was
\* created, and both now belong to the same person
C2_Witness ==
    \E k \in ContactKinds :
        /\ last.op = ContactSave[k] /\ last.ok /\ last.primary /\ last.pk = 1
        /\ 2 \in DOMAIN ContactTables[k]
        /\ ContactTables[k][2].person = ContactTables[k][1].person

\* C3: a save() of row r changes another row only by clearing is_primary, only
\* when r.is_primary is True, and only on rows of r's kind that belong to r's
\* person; no row other than r is added or removed.
C3_TriggerTouchesSiblingsOnly ==
    [][\A k \in ContactKinds :
          /\ DOMAIN ContactTables[k]' \ DOMAIN ContactTables[k]
                \subseteq (IF last'.op = ContactSave[k] THEN {last'.pk} ELSE {})
          /\ \A i \in DOMAIN ContactTables[k] :
                \/ last'.op = ContactSave[k] /\ i = last'.pk
                \/ /\ i \in DOMAIN ContactTables[k]'
                   /\ \/ ContactTables[k]'[i] = ContactTables[k][i]
                      \/ /\ last'.op = ContactSave[k]
                         /\ last'.primary
                         /\ ContactTables[k][i].person = last'.person
                         /\ ContactTables[k][i].is_primary
                         /\ ContactTables[k]'[i]
                               = [ContactTables[k][i] EXCEPT !.is_primary = FALSE]
      ]_vars

\* a save() with is_primary = True succeeded while a row of another person or
\* of another kind is primary
C3_Witness ==
    \E k \in ContactKinds :
        /\ last.op = ContactSave[k] /\ last.ok /\ last.primary
        /\ \E j \in ContactKinds : \E i \in DOMAIN ContactTables[j] :
              /\ ContactTables[j][i].is_primary
              /\ j # k \/ ContactTables[j][i].person # last.person

(***************************************************************************)
(* Claim about the address hierarchy (AddressSpec).                        *)
(***************************************************************************)
\* C7: every District references a stored Province, every Municipality a
\* stored District and every Ward a stored Municipality; a delete of a
\* Province, District or Municipality that has a child record is rejected and
\* changes no record.
C7_HierarchyIntegrity ==
    /\ [](/\ \A d \in DOMAIN districts : districts[d].province \in DOMAIN provinces
          /\ \A m \in DOMAIN municipalities :
                municipalities[m].district \in DOMAIN districts
          /\ \A w \in DOMAIN wards : wards[w].municipality \in DOMAIN municipalities)
    /\ [][(\/ /\ last'.op = "Province.delete"
              /\ Referring(districts, "province", last'.pk) # {}
           \/ /\ last'.op = "District.delete"
              /\ Referring(municipalities, "district", last'.pk) # {}
           \/ /\ last'.op = "Municipality.delete"
              /\ Referring(wards, "municipality", last'.pk) # {})
          => (~last'.ok /\ UNCHANGED <<addressVars, bankVars, persons, contactVars>>)
       ]_vars

\* the delete of a province whose one district has a municipality with a ward
\* was rejected
C7_Witness ==
    /\ last.op = "Province.delete" /\ ~last.ok
    /\ last.pk \in DOMAIN provinces
    /\ \E d \in DOMAIN districts, m \in DOMAIN municipalities, w \in DOMAIN wards :
          /\ districts[d].province = last.pk
          /\ municipalities[m].district = d
          /\ wards[w].municipality = m

(***************************************************************************)
(* SlugSpec: saves of Districts, Municipalities, Wards and BankBranches    *)
(* with an empty or a supplied slug, beside stored rows: two provinces,    *)
(* two banks, and a district, a municipality and a ward under each.        *)
(***************************************************************************)
FixturePks == {1, 2}

ProvinceFixture ==
    [i \in FixturePks |-> [name |-> <<60 + i>>, slug |-> <<60 + i>>, audit |-> StoredAudit]]

DistrictFixture ==
    [i \in FixturePks |->
        [province |-> i, name |-> <<70>>, slug |-> <<70>>, audit |-> StoredAudit]]

MunicipalityFixture ==
    [i \in FixturePks |->
        [district |-> i, name |-> <<80>>, slug |-> <<80>>, audit |-> StoredAudit]]

WardFixture ==
    [i \in FixturePks |->
        [municipality |-> i, ward_no |-> 9, slug |-> WardSlugValue(9), audit |-> StoredAudit]]

\* the rows a specification over the fixture saves: not the fixture's own
OwnPks(t) == Pks(t) \ FixturePks

SlugNames == {<<10>>, <<110>>}
SuppliedSlugs == {Blank, <<10>>, <<10, 1>>}
SuppliedWardSlugs == {Blank, WardSlugValue(1)}
BranchNames == {<<10>>}
SuppliedBranchSlugs == {Blank, <<41, 10>>}

SlugRows ==
    Cardinality(DOMAIN districts \ FixturePks)
        + Cardinality(DOMAIN municipalities \ FixturePks)
        + Cardinality(DOMAIN wards \ FixturePks)
        + Cardinality(DOMAIN branches)

MaySlug(t, pk) == pk \in DOMAIN t \/ SlugRows < MaxSlugRows

SlugInit ==
    /\ now = 1
    /\ nepaliAvailable = TRUE
    /\ provinces = ProvinceFixture /\ districts = DistrictFixture
    /\ municipalities = MunicipalityFixture /\ wards = WardFixture
    /\ banks = BankFixture /\ branches = NoRows
    /\ persons = NoRows
    /\ phones = NoRows /\ emails = NoRows /\ accounts = NoRows
    /\ last = NoCall
    /\ inflight = NoRows

SlugDistrict ==
    \E pk \in OwnPks(districts), province \in FixturePks, name \in SlugNames,
       slug \in SuppliedSlugs :
        MaySlug(districts, pk) /\ District_save(pk, province, name, slug)

SlugMunicipality ==
    \E pk \in OwnPks(municipalities), district \in FixturePks, name \in SlugNames,
       slug \in SuppliedSlugs :
        MaySlug(municipalities, pk) /\ Municipality_save(pk, district, name, slug)

SlugWard ==
    \E pk \in OwnPks(wards), municipality \in FixturePks, ward_no \in WardNumbers,
       slug \in SuppliedWardSlugs :
        MaySlug(wards, pk) /\ Ward_save(pk, municipality, ward_no, slug)

SlugBranch ==
    \E pk \in Pks(branches), bank \in FixturePks, name \in BranchNames,
       ward \in FixturePks, slug \in SuppliedBranchSlugs :
        MaySlug(branches, pk) /\ BankBranch_save(pk, bank, name, ward, slug)

SlugNext == SlugDistrict \/ SlugMunicipality \/ SlugWard \/ SlugBranch

SlugSpec == SlugInit /\ [][SlugNext]_vars

(***************************************************************************)
(* Claims about scoped slugs (SlugSpec).                                   *)
(***************************************************************************)
\* the four tables with a slug unique per parent, the parent field and the
\* save() of each
ScopedTables == <<districts, municipalities, wards, branches>>
ScopedParent == <<"province", "district", "municipality", "bank">>
ScopedSave == <<"District.save", "Municipality.save", "Ward.save", "BankBranch.save">>
ScopedConstraint ==
    <<"unique_district_slug_per_province", "unique_municipality_slug_per_district",
      "unique_ward_slug_per_municipality", "unique_branch_slug_per_bank">>
ScopedKinds == {1, 2, 3, 4}

\* the rows of kind k other than i that have the parent of row i
Siblings(k, i) ==
    {j \in DOMAIN ScopedTables[k] \ {i} :
        ScopedTables[k][j][ScopedParent[k]] = ScopedTables[k][i][ScopedParent[k]]}

\* C4: no two Districts of a Province, Municipalities of a District, Wards of
\* a Municipality or BankBranches of a Bank have the same slug, and a save
\* the database rejects leaves every stored record as it was.
C4_ScopedSlugsUnique ==
    /\ [](\A k \in ScopedKinds : \A i \in DOMAIN ScopedTables[k] :
             \A j \in Siblings(k, i) :
                ScopedTables[k][j].slug # ScopedTables[k][i].slug)
    /\ [][(\E k \in ScopedKinds : last'.op = ScopedSave[k] /\ ~last'.ok)
             => UNCHANGED <<addressVars, bankVars, persons, contactVars>>]_vars

\* a save was rejected for the slug constraint alone: it would have stored a
\* second record with a slug of its parent
C4_Witness ==
    \E k \in ScopedKinds :
        /\ last.op = ScopedSave[k]
        /\ last.err = {ScopedConstraint[k]}
        /\ ~last.gen

\* the slugified name of row r of kind k: "ward-n" for a Ward
NameSlug(k, r) == IF k = 3 THEN WardSlugValue(r.ward_no) ELSE slugify(r.name)

\* the value save() slugifies for row r of kind k
SaveSlug(k, r) ==
    IF k = 4 THEN slugify(BankBranchSlugValue(r.bank, r.name)) ELSE NameSlug(k, r)

DrawnNames == {<<10>>, <<110>>, <<10, 1>>, <<110, 1>>}
DrawnSlugs == {<<10>>, <<10, 1>>, <<10, 2>>, <<10, 3>>}

DrawnDistricts ==
    [province : {1}, name : DrawnNames, slug : DrawnSlugs, audit : {StoredAudit}]

\* the tables of at most MaxDrawn rows that District.Meta admits
DrawnTables ==
    {t \in UNION {[1..n -> DrawnDistricts] : n \in 0..MaxDrawn} :
        \A i, j \in DOMAIN t :
            i # j => (t[i].name # t[j].name /\ t[i].slug # t[j].slug)}

UniqueSlugInit ==
    /\ now = 1
    /\ nepaliAvailable = TRUE
    /\ provinces = ProvinceFixture
    /\ districts \in DrawnTables
    /\ municipalities = NoRows /\ wards = NoRows
    /\ banks = NoRows /\ branches = NoRows
    /\ persons = NoRows
    /\ phones = NoRows /\ emails = NoRows /\ accounts = NoRows
    /\ last = NoCall
    /\ inflight = NoRows

GenerateSlug ==
    \E pk \in Pks(districts), province \in DOMAIN provinces, name \in DrawnNames :
        last = NoCall /\ District_save(pk, province, name, Blank)

UniqueSlugNext == GenerateSlug

UniqueSlugSpec == UniqueSlugInit /\ [][UniqueSlugNext]_vars

\* the slugs the other Districts of row pk's province have
UsedSlugs(pk) ==
    {districts[i].slug : i \in Siblings(1, pk)}

\* C6: the slug unique_slugify assigns is the base when no other record of the
\* scope has it, and otherwise base-k for the smallest k >= 1 with base-k
\* unused; it is never a slug of another record of the scope, and the
\* instance's own stored slug does not count.
C6_FirstUnusedSlug ==
    (last.op = "District.save" /\ last.ok /\ last.gen)
        => LET slug == districts[last.pk].slug
               base == slugify(districts[last.pk].name)
               used == UsedSlugs(last.pk)
           IN  /\ slug \notin used
               /\ base \notin used => slug = base
               /\ base \in used =>
                    \E k \in 1..(Cardinality(used) + 1) :
                        /\ slug = Append(base, k)
                        /\ \A j \in 1..(k - 1) : Append(base, j) \in used

\* unique_slugify skipped base and base-1 and assigned base-2
C6_Witness ==
    /\ last.op = "District.save" /\ last.ok /\ last.gen
    /\ districts[last.pk].slug = Append(slugify(districts[last.pk].name), 2)
    /\ slugify(districts[last.pk].name) \in UsedSlugs(last.pk)

(***************************************************************************)
(* AuditSpec: Provinces and Banks created and saved again while the clock  *)
(* runs, with or without the Bikram Sambat conversion.                     *)
(***************************************************************************)
AuditRows == Cardinality(DOMAIN provinces) + Cardinality(DOMAIN banks)

MayAudit(t, pk) == pk \in DOMAIN t \/ AuditRows < MaxAuditRows

AuditInit ==
    /\ now = 1
    /\ nepaliAvailable \in BOOLEAN
    /\ provinces = NoRows /\ districts = NoRows
    /\ municipalities = NoRows /\ wards = NoRows
    /\ banks = NoRows /\ branches = NoRows
    /\ persons = NoRows
    /\ phones = NoRows /\ emails = NoRows /\ accounts = NoRows
    /\ last = NoCall
    /\ inflight = NoRows

AuditProvince ==
    \E pk \in Pks(provinces), name \in AddressNames :
        MayAudit(provinces, pk) /\ Province_save(pk, name, Blank)

AuditBank ==
    \E pk \in Pks(banks), name \in AddressNames :
        MayAudit(banks, pk) /\ Bank_save(pk, name, Blank)

AuditNext == AuditProvince \/ AuditBank \/ Tick

AuditSpec == AuditInit /\ [][AuditNext]_vars

\* the audit fields of every stored row
StoredAudits ==
    {provinces[i].audit : i \in DOMAIN provinces}
    \cup {districts[i].audit : i \in DOMAIN districts}
    \cup {municipalities[i].audit : i \in DOMAIN municipalities}
    \cup {wards[i].audit : i \in DOMAIN wards}
    \cup {banks[i].audit : i \in DOMAIN banks}
    \cup {branches[i].audit : i \in DOMAIN branches}
    \cup {persons[i].audit : i \in DOMAIN persons}
    \cup {phones[i].audit : i \in DOMAIN phones}
    \cup {emails[i].audit : i \in DOMAIN emails}
    \cup {accounts[i].audit : i \in DOMAIN accounts}

\* C8: once a record is stored, created_at_nepali is the display string of
\* its created_at and updated_at_nepali the display string of its updated_at.
C8_NepaliStringsSet ==
    \A a \in StoredAudits :
        /\ a.created_at_nepali = gregorian_to_nepali_string(a.created_at)
        /\ a.updated_at_nepali = gregorian_to_nepali_string(a.updated_at)

(***************************************************************************)
(* SoftDeleteSpec: soft-deletes and restores of two stored persons, by the *)
(* Person methods and by the admin actions, between edits of their names,  *)
(* while the clock runs.  Person 1 has a phone, an email and an account.   *)
(***************************************************************************)
PhoneFixture ==
    [i \in {1} |-> [person |-> 1, number |-> 1, is_primary |-> TRUE, audit |-> StoredAudit]]

EmailFixture ==
    [i \in {1} |-> [person |-> 1, email |-> 1, is_primary |-> TRUE, audit |-> StoredAudit]]

AccountFixture ==
    [i \in {1} |->
        [person |-> 1, bank |-> 1, branch |-> None, account_number |-> 1,
         is_primary |-> TRUE, audit |-> StoredAudit]]

PersonNames == {<<31>>, <<32>>}

SoftDeleteInit ==
    /\ now = 1
    /\ nepaliAvailable = TRUE
    /\ provinces = NoRows /\ districts = NoRows
    /\ municipalities = NoRows /\ wards = NoRows
    /\ banks = BankFixture /\ branches = NoRows
    /\ persons = PersonFixture
    /\ phones = PhoneFixture /\ emails = EmailFixture /\ accounts = AccountFixture
    /\ last = NoCall
    /\ inflight = NoRows

SoftDelete == \E pk \in DOMAIN persons : Person_soft_delete(pk)
Restore == \E pk \in DOMAIN persons : Person_restore(pk)
AdminSoftDelete == \E pks \in SUBSET DOMAIN persons : pks # {} /\ action_soft_delete(pks)
AdminRestore == \E pks \in SUBSET DOMAIN persons : pks # {} /\ action_restore(pks)

\* the name of a stored person edited on an instance just read, slug kept
EditPerson ==
    \E pk \in DOMAIN persons, name \in PersonNames :
        Person_save(pk, persons[pk].post, name, persons[pk].computer_code,
                    persons[pk].identity_no, persons[pk].slug,
                    persons[pk].branch_address, persons[pk].is_active,
                    persons[pk].deleted_at)

SoftDeleteNext ==
    SoftDelete \/ Restore \/ AdminSoftDelete \/ AdminRestore \/ EditPerson \/ Tick

SoftDeleteSpec == SoftDeleteInit /\ [][SoftDeleteNext]_vars

SoftDeletes == {"Person.soft_delete", "action_soft_delete"}
Restores == {"Person.restore", "action_restore"}

\* person rows a and b differ at most in is_active, deleted_at and the audit
\* fields
SamePerson(a, b) ==
    \A f \in {"name", "slug", "identity_no", "computer_code", "post", "branch_address"} :
        a[f] = b[f]

\* the persons of the call are stored with the flag active and the timestamp
\* deleted; their other fields, the other persons and every related row are
\* left as they were
SoftStep(active, deleted) ==
    /\ DOMAIN persons' = DOMAIN persons
    /\ \A p \in DOMAIN persons :
          IF p \in last'.pks
          THEN /\ persons'[p].is_active = active
               /\ persons'[p].deleted_at = deleted
               /\ SamePerson(persons[p], persons'[p])
          ELSE persons'[p] = persons[p]
    /\ UNCHANGED <<addressVars, bankVars, contactVars>>

\* C9: a soft-delete, by the method or the admin action, stores is_active =
\* False and deleted_at = the current time on the persons it is given and
\* removes nothing; a restore stores is_active = True and deleted_at = None;
\* both leave the other fields of the person and every related row as they
\* were, so a restore after a soft-delete gives back the person as it was
\* before the soft-delete.
C9_SoftDeleteRestoreRoundTrip ==
    [][/\ last'.op \in SoftDeletes => SoftStep(FALSE, now)
       /\ last'.op \in Restores => SoftStep(TRUE, None)
       /\ (last.op \in SoftDeletes /\ last'.op \in Restores /\ last'.pks = last.pks)
             => \A p \in last.pks :
                   /\ SamePerson(last.pre[p], persons'[p])
                   /\ persons'[p].is_active /\ persons'[p].deleted_at = None
      ]_vars

\* a restore was applied to person 1, who was soft-deleted and has a phone, an
\* email and an account
C9_Witness ==
    /\ last.op \in Restores
    /\ 1 \in last.pks
    /\ ~last.pre[1].is_active /\ last.pre[1].deleted_at # None
    /\ persons[1].is_active /\ persons[1].deleted_at = None
    /\ RowsOf(phones, 1) # {} /\ RowsOf(emails, 1) # {} /\ RowsOf(accounts, 1) # {}

(***************************************************************************)
(* WardSpec: Wards created with an empty slug, and stored Wards saved      *)
(* again, moved or renumbered, with the slug emptied or as it was read.    *)
(***************************************************************************)
WardRows == Cardinality(DOMAIN wards)

WardInit ==
    /\ now = 1
    /\ nepaliAvailable = TRUE
    /\ provinces = ProvinceFixture /\ districts = DistrictFixture
    /\ municipalities = MunicipalityFixture /\ wards = NoRows
    /\ banks = NoRows /\ branches = NoRows
    /\ persons = NoRows
    /\ phones = NoRows /\ emails = NoRows /\ accounts = NoRows
    /\ last = NoCall
    /\ inflight = NoRows

CreateWard ==
    \E municipality \in DOMAIN municipalities, ward_no \in WardNumbers :
        /\ WardRows < MaxWards
        /\ Ward_save(DefaultPk(wards), municipality, ward_no, Blank)

ResaveWard ==
    \E pk \in DOMAIN wards, municipality \in DOMAIN municipalities,
       ward_no \in WardNumbers :
        \E slug \in {Blank, wards[pk].slug} :
            Ward_save(pk, municipality, ward_no, slug)

WardNext == CreateWard \/ ResaveWard

WardSpec == WardInit /\ [][WardNext]_vars

\* C10: the slug Ward.save() generates for a Ward with number n is "ward-n",
\* with no numeric suffix.
C10_WardSlugPredictable ==
    (last.op = "Ward.save" /\ last.ok /\ last.gen)
        => wards[last.pk].slug = WardSlugValue(wards[last.pk].ward_no)

(***************************************************************************)
(* Deletes of Person, Bank, BankBranch and BankAccount rows.               *)
(***************************************************************************)
\* Person.delete(): phone numbers, emails and bank accounts CASCADE
Person_delete(pk) ==
    /\ pk \in DOMAIN persons
    /\ persons' = Drop(persons, {pk})
    /\ phones' = Drop(phones, Referring(phones, "person", pk))
    /\ emails' = Drop(emails, Referring(emails, "person", pk))
    /\ accounts' = Drop(accounts, Referring(accounts, "person", pk))
    /\ last' = DeleteCall("Person.delete", pk, FALSE)
    /\ UNCHANGED <<addressVars, bankVars, now, nepaliAvailable, inflight>>

\* the accounts that PROTECT a bank to delete with the given branches
ProtectingAccounts(bank, gone) ==
    Referring(accounts, "bank", bank)
        \cup {i \in DOMAIN accounts : accounts[i].branch \in gone}

\* Bank.delete() that removes the bank and its branches whatever refers to them
Bank_delete_unprotected(pk) ==
    LET gone == Referring(branches, "bank", pk)
    IN  /\ pk \in DOMAIN banks
        /\ banks' = Drop(banks, {pk})
        /\ branches' = Drop(branches, gone)
        /\ last' = DeleteCall("Bank.delete", pk, FALSE)
        /\ UNCHANGED <<addressVars, persons, contactVars, now, nepaliAvailable, inflight>>

\* Bank.delete(): branches CASCADE; BankAccount.bank and BankAccount.branch
\* PROTECT, and the collector raises before anything is removed
Bank_delete(pk) ==
    LET gone == Referring(branches, "bank", pk)
        ok == ProtectingAccounts(pk, gone) = {}
    IN  /\ pk \in DOMAIN banks
        /\ banks' = IF ok THEN Drop(banks, {pk}) ELSE banks
        /\ branches' = IF ok THEN Drop(branches, gone) ELSE branches
        /\ last' = DeleteCall("Bank.delete", pk, ~ok)
        /\ UNCHANGED <<addressVars, persons, contactVars, now, nepaliAvailable, inflight>>

\* BankBranch.delete(): BankAccount.branch PROTECTs
BankBranch_delete(pk) ==
    LET ok == Referring(accounts, "branch", pk) = {}
    IN  /\ pk \in DOMAIN branches
        /\ branches' = IF ok THEN Drop(branches, {pk}) ELSE branches
        /\ last' = DeleteCall("BankBranch.delete", pk, ~ok)
        /\ UNCHANGED <<addressVars, banks, persons, contactVars, now, nepaliAvailable, inflight>>

\* BankAccount.delete(): nothing refers to an account
BankAccount_delete(pk) ==
    /\ pk \in DOMAIN accounts
    /\ accounts' = Drop(accounts, {pk})
    /\ last' = DeleteCall("BankAccount.delete", pk, FALSE)
    /\ UNCHANGED <<addressVars, bankVars, persons, phones, emails, now, nepaliAvailable, inflight>>

(***************************************************************************)
(* BankingSpec: creates and deletes of persons, banks, branches, accounts, *)
(* phone numbers and emails, over two stored persons, two stored banks and *)
(* the stored address rows.  A create may name a parent that is not stored.*)
(***************************************************************************)
MaxBankingRows == 2

\* a new row only while branches, accounts, phones and emails are fewer than
\* MaxBankingRows rows
MayBank ==
    Cardinality(DOMAIN branches) + Cardinality(DOMAIN accounts)
        + Cardinality(DOMAIN phones) + Cardinality(DOMAIN emails) < MaxBankingRows

BankingInit ==
    /\ now = 1
    /\ nepaliAvailable = TRUE
    /\ provinces = ProvinceFixture /\ districts = DistrictFixture
    /\ municipalities = MunicipalityFixture /\ wards = WardFixture
    /\ banks = BankFixture /\ branches = NoRows
    /\ persons = PersonFixture
    /\ phones = NoRows /\ emails = NoRows /\ accounts = NoRows
    /\ last = NoCall
    /\ inflight = NoRows

\* a person created as the stored persons were
CreatePerson ==
    LET pk == DefaultPk(persons)
    IN  /\ pk \in FixturePks
        /\ Person_save(pk, 1, <<30 + pk>>, <<pk>>, pk, Blank, None, TRUE, None)

CreateBank ==
    LET pk == DefaultPk(banks)
    IN  pk \in FixturePks /\ Bank_save(pk, <<40 + pk>>, Blank)

CreateBranch ==
    \E bank \in FixturePks, ward \in ParentKeys(wards) :
        MayBank /\ BankBranch_save(DefaultPk(branches), bank, <<10>>, ward, Blank)

CreateAccount ==
    \E person \in FixturePks, bank \in FixturePks,
       branch \in {None} \cup ParentKeys(branches) :
        MayBank /\ BankAccount_save(DefaultPk(accounts), person, bank, branch,
                                    DefaultPk(accounts), FALSE)

CreatePhone ==
    \E person \in FixturePks :
        MayBank /\ PhoneNumber_save(DefaultPk(phones), person, 1, FALSE)

CreateEmail ==
    \E person \in FixturePks :
        MayBank /\ EmailAddress_save(DefaultPk(emails), person, 1, FALSE)

DeletePerson == \E pk \in DOMAIN persons : Person_delete(pk)
DeleteBank == \E pk \in DOMAIN banks : Bank_delete(pk)
DeleteBranch == \E pk \in DOMAIN branches : BankBranch_delete(pk)
DeleteAccount == \E pk \in DOMAIN accounts : BankAccount_delete(pk)

BankingNext ==
    \/ CreatePerson \/ CreateBank \/ CreateBranch \/ CreateAccount
    \/ CreatePhone \/ CreateEmail
    \/ DeletePerson \/ DeleteBank \/ DeleteBranch \/ DeleteAccount \/ DeleteWard

BankingSpec == BankingInit /\ [][BankingNext]_vars

\* C11: after any sequence of creates and deletes every BankAccount refers
\* to a stored Person and a stored Bank and, when its branch is set, to a
\* stored BankBranch, and every BankBranch refers to a stored Bank and a
\* stored Ward; deleting a Person removes all of its bank accounts, phone
\* numbers and emails; deleting a Bank or a BankBranch is rejected, with no
\* bank and no branch removed, whenever a BankAccount refers to that bank or
\* to one of the branches the delete would remove.
C11_BankingIntegrity ==
    /\ [](/\ \A a \in DOMAIN accounts :
                /\ accounts[a].person \in DOMAIN persons
                /\ accounts[a].bank \in DOMAIN banks
                /\ accounts[a].branch = None \/ accounts[a].branch \in DOMAIN branches
          /\ \A b \in DOMAIN branches :
                /\ branches[b].bank \in DOMAIN banks
                /\ branches[b].ward \in DOMAIN wards)
    /\ [][/\ (last'.op = "Person.delete" /\ last' # last)
              => /\ last'.pk \notin DOMAIN persons'
                 /\ Referring(phones', "person", last'.pk) = {}
                 /\ Referring(emails', "person", last'.pk) = {}
                 /\ Referring(accounts', "person", last'.pk) = {}
          /\ (/\ last'.op = "Bank.delete"
              /\ last'.pk \in DOMAIN banks
              /\ ProtectingAccounts(last'.pk, Referring(branches, "bank", last'.pk)) # {})
              => ~last'.ok /\ banks' = banks /\ branches' = branches
          /\ (/\ last'.op = "BankBranch.delete"
              /\ last'.pk \in DOMAIN branches
              /\ Referring(accounts, "branch", last'.pk) # {})
              => ~last'.ok /\ banks' = banks /\ branches' = branches]_vars

\* a Bank delete was rejected for an account of another bank at one of the
\* bank's branches
C11_Witness ==
    /\ last.op = "Bank.delete" /\ ~last.ok
    /\ Referring(accounts, "bank", last.pk) = {}
    /\ \E a \in DOMAIN accounts :
          /\ accounts[a].branch \in DOMAIN branches
          /\ branches[accounts[a].branch].bank = last.pk

(***************************************************************************)
(* ConcurrentSpec: two requests each call save() on a stored PhoneNumber,  *)
(* EmailAddress or BankAccount row of person 1.  save() runs three         *)
(* statements, each committed on its own: the sibling update, the row      *)
(* write of AuditableModel.save, and the write of updated_at_nepali.       *)
(***************************************************************************)
Requests == {1, 2}

Idle == [pc |-> "idle", kind |-> 0, pk |-> None, rec |-> NoRows]

\* person 1 with two rows of each kind, the first one primary
ConcurrentPhones ==
    [i \in {1, 2} |-> [person |-> 1, number |-> i, is_primary |-> (i = 1),
                       audit |-> StoredAudit]]

ConcurrentEmails ==
    [i \in {1, 2} |-> [person |-> 1, email |-> i, is_primary |-> (i = 1),
                       audit |-> StoredAudit]]

ConcurrentAccounts ==
    [i \in {1, 2} |->
        [person |-> 1, bank |-> i, branch |-> None, account_number |-> 1,
         is_primary |-> (i = 1), audit |-> StoredAudit]]

ConcurrentInit ==
    /\ now = 1
    /\ nepaliAvailable = TRUE
    /\ provinces = NoRows /\ districts = NoRows
    /\ municipalities = NoRows /\ wards = NoRows
    /\ banks = BankFixture /\ branches = NoRows
    /\ persons = PersonFixture
    /\ phones = ConcurrentPhones /\ emails = ConcurrentEmails
    /\ accounts = ConcurrentAccounts
    /\ last = NoCall
    /\ inflight = [r \in Requests |-> Idle]

\* the table of kind k becomes t
WriteTable(k, t) ==
    /\ phones' = IF k = 1 THEN t ELSE phones
    /\ emails' = IF k = 2 THEN t ELSE emails
    /\ accounts' = IF k = 3 THEN t ELSE accounts

\* a request reads a stored row, sets is_primary and calls save()
BeginSave ==
    \E r \in Requests, k \in ContactKinds, is_primary \in BOOLEAN :
    \E pk \in DOMAIN ContactTables[k] :
        /\ inflight[r].pc = "idle"
        /\ inflight' = [inflight EXCEPT ![r] =
                          [pc |-> "clear", kind |-> k, pk |-> pk,
                           rec |-> [ContactTables[k][pk] EXCEPT
                                       !.is_primary = is_primary]]]
        /\ UNCHANGED <<addressVars, bankVars, persons, contactVars, now,
                       nepaliAvailable, last>>

\* if self.is_primary: <Model>.objects.filter(person=self.person,
\* is_primary=True).update(is_primary=False)
ClearStep ==
    \E r \in Requests :
        LET c == inflight[r]
            t == ContactTables[c.kind]
        IN  /\ c.pc = "clear"
            /\ WriteTable(c.kind, IF c.rec.is_primary
                                  THEN ClearPrimary(t, c.rec.person) ELSE t)
            /\ inflight' = [inflight EXCEPT ![r].pc = "write"]
            /\ UNCHANGED <<addressVars, bankVars, persons, now, nepaliAvailable, last>>

\* AuditableModel.save: super().save(*args, **kwargs) writes every field of
\* the instance, updated_at as now
WriteStep ==
    \E r \in Requests :
        LET c == inflight[r]
            rec == [c.rec EXCEPT !.audit.updated_at = now]
        IN  /\ c.pc = "write"
            /\ WriteTable(c.kind, Put(ContactTables[c.kind], c.pk, rec))
            /\ inflight' = [inflight EXCEPT ![r] = [c EXCEPT !.pc = "nepali", !.rec = rec]]
            /\ UNCHANGED <<addressVars, bankVars, persons, now, nepaliAvailable, last>>

\* AuditableModel.save: super().save(update_fields=['updated_at_nepali'])
\* writes that column only, and save() returns
NepaliStep ==
    \E r \in Requests :
        LET c == inflight[r]
            t == ContactTables[c.kind]
            rec == [c.rec EXCEPT !.audit = AuditableModel_save_fields(@)]
        IN  /\ c.pc = "nepali"
            /\ WriteTable(c.kind,
                 [t EXCEPT ![c.pk].audit.updated_at_nepali = rec.audit.updated_at_nepali])
            /\ inflight' = [inflight EXCEPT ![r] = [c EXCEPT !.pc = "done", !.rec = rec]]
            /\ last' = ContactCall(ContactSave[c.kind], c.pk, {}, c.rec.person,
                                   c.rec.is_primary)
            /\ UNCHANGED <<addressVars, bankVars, persons, now, nepaliAvailable>>

ConcurrentNext == BeginSave \/ ClearStep \/ WriteStep \/ NepaliStep

ConcurrentSpec == ConcurrentInit /\ [][ConcurrentNext]_vars

\* C12: when two save() calls with is_primary = True on two different rows
\* of the same kind of the same person have both returned, however their
\* statements interleaved, at most one row of that kind of that person has
\* is_primary = True.
C12_AtMostOnePrimaryInterleaved ==
    \A r, q \in Requests :
        (/\ r # q
         /\ inflight[r].pc = "done" /\ inflight[q].pc = "done"
         /\ inflight[r].kind = inflight[q].kind
         /\ inflight[r].pk # inflight[q].pk
         /\ inflight[r].rec.person = inflight[q].rec.person
         /\ inflight[r].rec.is_primary /\ inflight[q].rec.is_primary)
            => Cardinality(Primaries(ContactTables[inflight[r].kind],
                                     inflight[r].rec.person)) <= 1

(***************************************************************************)
(* Claim about rejected saves of a primary row (PrimarySpec).              *)
(***************************************************************************)
\* C13: when save() of a PhoneNumber, EmailAddress or BankAccount row with
\* is_primary = True is rejected by the uniqueness constraint of its model,
\* every row of its kind that was stored before the call has the is_primary
\* it had before the call.
C13_RejectedPrimarySaveChangesNothing ==
    [][\A k \in ContactKinds :
          (/\ last'.op = ContactSave[k]
           /\ last'.primary
           /\ last'.err = {"unique_together"})
              => \A i \in DOMAIN ContactTables[k] :
                    /\ i \in DOMAIN ContactTables[k]'
                    /\ ContactTables[k]'[i].is_primary = ContactTables[k][i].is_primary
      ]_vars

(***************************************************************************)
(* PersonSpec: the life of Person rows through the admin and the Person    *)
(* methods.  The add form creates a person with the defaults of the fields *)
(* it does not show (CreatePerson); the change form reads a                *)
(* person, and saves what it read with the fields of PersonAdmin.fieldsets *)
(* edited, possibly after the row was soft-deleted or restored meanwhile.  *)
(***************************************************************************)
Editors == {1}

MaxEditTime == 2

\* the clock, while the edits last
EditTick == now < MaxEditTime /\ Tick

\* the change form reads a person
LoadPerson ==
    \E r \in Editors, pk \in DOMAIN persons :
        /\ inflight' = [inflight EXCEPT ![r] =
                          [pc |-> "loaded", kind |-> 0, pk |-> pk, rec |-> persons[pk]]]
        /\ last' = NoCall
        /\ UNCHANGED <<addressVars, bankVars, persons, contactVars, now, nepaliAvailable>>

\* the change form saves the instance it read, with the name edited
SaveLoaded ==
    \E r \in Editors, name \in PersonNames :
        LET c == inflight[r]
        IN  /\ c.pc = "loaded"
            /\ Person_save(c.pk, c.rec.post, name, c.rec.computer_code,
                           c.rec.identity_no, c.rec.slug, c.rec.branch_address,
                           c.rec.is_active, c.rec.deleted_at)

PersonInit ==
    /\ now = 1
    /\ nepaliAvailable = TRUE
    /\ provinces = NoRows /\ districts = NoRows
    /\ municipalities = NoRows /\ wards = NoRows
    /\ banks = NoRows /\ branches = NoRows
    /\ persons = NoRows
    /\ phones = NoRows /\ emails = NoRows /\ accounts = NoRows
    /\ last = NoCall
    /\ inflight = [r \in Editors |-> Idle]

PersonNext ==
    \/ CreatePerson \/ LoadPerson \/ SaveLoaded
    \/ SoftDelete \/ Restore \/ AdminSoftDelete \/ AdminRestore \/ EditTick

PersonSpec == PersonInit /\ [][PersonNext]_vars

\* C14: after any sequence of Person creation, Person.save,
\* Person.soft_delete, Person.restore and the admin soft-delete and restore
\* actions, a Person has is_active = True if and only if its deleted_at is
\* None.
C14_ActiveIffNotDeleted ==
    \A p \in DOMAIN persons : persons[p].is_active <=> (persons[p].deleted_at = None)

\* the change form saved, at a later time, a person it had read
\* soft-deleted, and the person is stored soft-deleted
C14_Witness ==
    /\ last.op = "Person.save" /\ last.ok
    /\ ~persons[last.pk].is_active
    /\ persons[last.pk].deleted_at # None
    /\ persons[last.pk].deleted_at < now

====
